---- MODULE Spec2Model ----
(***************************************************************************)
(* wordviz: the EmbeddingLoader (loading.py) and the neighbour queries     *)
(* n_most_similar / n_most_similar2 / word_distance (similarity.py).       *)
(*                                                                         *)
(* Python values.  None is the empty tuple and any other value v of an     *)
(* attribute that may be None is the 1-tuple <<v>>, so that `x is None`    *)
(* is x = None.  A list or a numpy array is a sequence; a vector is a      *)
(* sequence of integers.                                                   *)
(***************************************************************************)
EXTENDS Integers, Sequences, FiniteSets, TLC

VARIABLES
    embeddings_raw,     \* EmbeddingLoader.embeddings_raw
    embeddings,         \* EmbeddingLoader.embeddings
    tokens,             \* EmbeddingLoader.tokens
    dimension,          \* EmbeddingLoader.dimension
    embeddings_subset,  \* EmbeddingLoader.embeddings_subset
    tokens_subset,      \* EmbeddingLoader.tokens_subset
    call,               \* the last call made on the loader: its name and arguments
    outcome,            \* how that call ended: "ok", or the exception it raised
    ret,                \* what it returned (None when it raised or returns nothing)
    ndist               \* distances computed during that call

loader == <<embeddings_raw, embeddings, tokens, dimension,
            embeddings_subset, tokens_subset>>
vars == <<embeddings_raw, embeddings, tokens, dimension,
          embeddings_subset, tokens_subset, call, outcome, ret, ndist>>

(* ------------------------------ bounds --------------------------------- *)

\* Largest n (subset size, number of neighbours) passed by a caller.
MaxN == 4
\* Largest vocabulary of the stores the neighbour queries are run on.
MaxVocab == 3

\* use_subset's default n.
DefaultN == 1000

(* --------------------------- Python helpers ---------------------------- *)

None == <<>>
Some(v) == <<v>>
Val(o) == o[1]

Min(a, b) == IF a < b THEN a ELSE b
Max(a, b) == IF a > b THEN a ELSE b
Abs(a) == IF a < 0 THEN -a ELSE a
Sgn(a) == IF a < 0 THEN -1 ELSE IF a > 0 THEN 1 ELSE 0

\* list(range(n)): empty when n <= 0.  Python indices are 0-based.
Range(n) == [i \in 1..Max(n, 0) |-> i - 1]

\* [xs[i] for i in indices], and numpy's arr[indices], for in-range indices.
Take(xs, indices) == [j \in 1..Len(indices) |-> xs[indices[j] + 1]]

\* The sequences of pairwise distinct elements of S with exactly m elements.
RECURSIVE Arrangements(_, _)
Arrangements(S, m) ==
    IF m = 0 THEN {<<>>}
    ELSE UNION {{<<x>> \o r : r \in Arrangements(S \ {x}, m - 1)} : x \in S}

(* ------------------------------ the files ------------------------------ *)

\* A path is <<stem, extension>>; os.path.splitext(path)[1] is path[2].
\* What is on disk: each file's layout and the (word, vector) rows it holds.
\* gensim keeps the first of two rows with the same word, so index_to_key
\* never repeats a word.
Files == {
    [path |-> <<"pets", ".txt">>, layout |-> "w2v_text",
     words |-> <<"cat", "dog", "fish">>,
     vectors |-> << <<1, 0>>, <<1, 1>>, <<-1, 0>> >>],
    [path |-> <<"SKY", ".VEC">>, layout |-> "w2v_text",
     words |-> <<"sun", "cat">>,
     vectors |-> << <<0, 1>>, <<0, 0>> >>],
    [path |-> <<"glove", ".txt">>, layout |-> "glove_text",
     words |-> <<"the">>,
     vectors |-> << <<1, 1>> >>],
    [path |-> <<"model", ".bin">>, layout |-> "w2v_bin",
     words |-> <<"dog", "cat">>,
     vectors |-> << <<0, 1>>, <<1, 0>> >>],
    [path |-> <<"cc", ".bin">>, layout |-> "fasttext_bin",
     words |-> <<"il", "la">>,
     vectors |-> << <<1, 0>>, <<0, 1>> >>],
    [path |-> <<"notes", ".csv">>, layout |-> "w2v_text",
     words |-> <<"cat">>,
     vectors |-> << <<1, 0>> >>]
}

Paths == {f.path : f \in Files} \cup {<<"nowhere", ".txt">>}
Formats == {"word2vec", "fasttext", "glove", "bert"}
Strategies == {"first", "random", "last"}
NArgs == (-1)..MaxN

FileAt(path) == CHOOSE f \in Files : f.path = path

\* str.lower() on the extensions in use.
Lower(ext) ==
    CASE ext = ".VEC" -> ".vec"
      [] ext = ".TXT" -> ".txt"
      [] ext = ".BIN" -> ".bin"
      [] OTHER -> ext

\* A gensim KeyedVectors holding the rows of file f.
KeyedVectors(f) ==
    [class |-> "KeyedVectors", index_to_key |-> f.words,
     vectors |-> f.vectors, vector_size |-> Len(f.vectors[1])]

\* A gensim FastText model: it has vector_size, and neither index_to_key
\* nor get_vector (those are attributes of its .wv).
FastTextModel(f) ==
    [class |-> "FastText", index_to_key |-> <<>>,
     vectors |-> <<>>, vector_size |-> Len(f.vectors[1])]

(* ------------------------------ distances ------------------------------ *)

\* A float distance is <<class, value>>: <<0, v>> a finite number, <<1, 0>>
\* inf, <<2, 0>> nan.  Finite values are kept exact as integers: each metric's
\* real value is mapped by a strictly increasing function fixed for that
\* metric (named at the metric), so order and equality between distances of
\* one metric are those of the real values.
Num(v) == <<0, v>>
Inf == <<1, 0>>
NaN == <<2, 0>>
IsNaN(d) == d[1] = 2

\* Python's a < b, a > b, a <= b on floats: False when either is nan.
PyLt(a, b) == ~IsNaN(a) /\ ~IsNaN(b) /\ (a[1] < b[1] \/ (a[1] = b[1] /\ a[2] < b[2]))
PyGt(a, b) == PyLt(b, a)
PyLe(a, b) == ~IsNaN(a) /\ ~IsNaN(b) /\ ~PyLt(b, a)

\* The order numpy's sort, argsort and argpartition use: nan after all else.
SortLe(a, b) == a[1] < b[1] \/ (a[1] = b[1] /\ a[2] <= b[2])

\* Vectors have two components in -1..1 (vector_size 2).
Dot(u, v) == u[1] * v[1] + u[2] * v[2]
L1Diff(u, v) == Abs(u[1] - v[1]) + Abs(u[2] - v[2])
L1Sum(u, v) == Abs(u[1] + v[1]) + Abs(u[2] + v[2])
IsConstant(u) == u[1] = u[2]

\* x / y for floats x >= 0, y >= 0, times scale (scale * x a multiple of y):
\* 0/0 is nan and x/0 is inf, as numpy divides.
FloatDiv(scale, x, y) ==
    IF y = 0 THEN (IF x = 0 THEN NaN ELSE Inf) ELSE Num((scale * x) \div y)

\* braycurtis: sum|u-v| / sum|u+v|, times 12.
BrayCurtis(u, v) == FloatDiv(12, L1Diff(u, v), L1Sum(u, v))

\* canberra: sum of |u_i-v_i| / (|u_i|+|v_i|), a 0/0 term counting 0; times 2.
CanberraTerm(a, b) ==
    IF Abs(a) + Abs(b) = 0 THEN 0 ELSE (2 * Abs(a - b)) \div (Abs(a) + Abs(b))
Canberra(u, v) == Num(CanberraTerm(u[1], v[1]) + CanberraTerm(u[2], v[2]))

Chebyshev(u, v) == Num(Max(Abs(u[1] - v[1]), Abs(u[2] - v[2])))

\* 1 - s for the cosine similarity s = u.v / sqrt(u.u * v.v), kept as
\* 4 - 4 * sgn(s) * s^2 (s^2 is a multiple of 1/4 on these vectors).
CosineOf(u, v) ==
    Num(4 - (4 * Sgn(Dot(u, v)) * Dot(u, v) * Dot(u, v)) \div (Dot(u, u) * Dot(v, v)))

\* scipy.spatial.distance.cosine: 0/0 for an all-zero vector.
Cosine(u, v) == IF Dot(u, u) * Dot(v, v) = 0 THEN NaN ELSE CosineOf(u, v)

\* -np.dot
NegDot(u, v) == Num(-Dot(u, v))

\* euclidean, kept as its square.
Euclidean(u, v) ==
    Num((u[1] - v[1]) * (u[1] - v[1]) + (u[2] - v[2]) * (u[2] - v[2]))

\* cityblock
Manhattan(u, v) == Num(L1Diff(u, v))

\* 1 - pearsonr / 1 - spearmanr: on two components the coefficient is the
\* product of the signs of the two differences, and nan for a constant input.
OneMinusCorr(u, v) ==
    IF IsConstant(u) \/ IsConstant(v) THEN NaN
    ELSE Num(1 - Sgn(u[2] - u[1]) * Sgn(v[2] - v[1]))

\* The metric names word_distance's match statement has a case for.
Metrics == {"braycurtis", "canberra", "chebyshev", "cosine", "dot",
            "euclidean", "manhattan", "pearson", "spearman"}
DistArgs == Metrics \cup {"jaccard_index"}

\* word_distance's match statement on two vectors (both words are in the
\* vocabulary); None when no case matches and `distance` is never bound.
WordDistance(vec1, vec2, dist) ==
    CASE dist = "braycurtis" -> Some(BrayCurtis(vec1, vec2))
      [] dist = "canberra" -> Some(Canberra(vec1, vec2))
      [] dist = "chebyshev" -> Some(Chebyshev(vec1, vec2))
      [] dist = "cosine" -> Some(Cosine(vec1, vec2))
      [] dist = "dot" -> Some(NegDot(vec1, vec2))
      [] dist = "euclidean" -> Some(Euclidean(vec1, vec2))
      [] dist = "manhattan" -> Some(Manhattan(vec1, vec2))
      [] dist = "pearson" -> Some(OneMinusCorr(vec1, vec2))
      [] dist = "spearman" -> Some(OneMinusCorr(vec1, vec2))
      [] OTHER -> None

\* The metric names sklearn's pairwise_distances accepts, among DistArgs.
PairwiseMetrics == {"braycurtis", "canberra", "chebyshev", "cosine",
                    "euclidean", "manhattan"}

\* One entry of pairwise_distances(target, batch, metric=dist) for an accepted
\* metric.  sklearn's cosine normalises an all-zero vector to itself, so its
\* similarity is 0 and its distance 1; the others are scipy's cdist.
PairwiseDistance(target_vector, vec, dist) ==
    CASE dist = "braycurtis" -> BrayCurtis(target_vector, vec)
      [] dist = "canberra" -> Canberra(target_vector, vec)
      [] dist = "chebyshev" -> Chebyshev(target_vector, vec)
      [] dist = "cosine" ->
            IF Dot(target_vector, target_vector) * Dot(vec, vec) = 0
            THEN Num(4) ELSE CosineOf(target_vector, vec)
      [] dist = "euclidean" -> Euclidean(target_vector, vec)
      [] dist = "manhattan" -> Manhattan(target_vector, vec)

(* --------------------------- EmbeddingLoader --------------------------- *)

\* EmbeddingLoader.__init__
Init ==
    /\ embeddings_raw = None
    /\ embeddings = None
    /\ tokens = None
    /\ dimension = None
    /\ embeddings_subset = None
    /\ tokens_subset = None
    /\ call = [op |-> "__init__"]
    /\ outcome = "ok"
    /\ ret = None
    /\ ndist = 0

\* An operation that raises: nothing is returned, the loader is as it was.
Raise(c, exc) ==
    /\ call' = c
    /\ outcome' = exc
    /\ ret' = None
    /\ ndist' = 0
    /\ UNCHANGED loader

\* _validate_file: "ok" with the file's binary flag, or the exception.
ValidateFile(path) ==
    LET ext == Lower(path[2]) IN
    IF path \notin {f.path : f \in Files}
    THEN [exc |-> "FileNotFoundError", binary |-> FALSE]
    ELSE IF ext \notin {".bin", ".txt", ".vec"}
    THEN [exc |-> "ValueError", binary |-> FALSE]
    ELSE [exc |-> "ok", binary |-> ext = ".bin"]

\* The reader load_from_file's match statement runs for (format, binary), on
\* file f: the object it assigns to embeddings_raw, None when the reader
\* raises (the file is not in the layout that reader parses).
ReadRaw(f, format, binary) ==
    CASE format = "word2vec" ->
            IF f.layout = (IF binary THEN "w2v_bin" ELSE "w2v_text")
            THEN Some(KeyedVectors(f)) ELSE None
      [] format = "fasttext" /\ binary ->
            IF f.layout = "fasttext_bin" THEN Some(FastTextModel(f)) ELSE None
      [] format = "fasttext" /\ ~binary ->
            IF f.layout = "w2v_text" THEN Some(KeyedVectors(f)) ELSE None
      [] format = "glove" ->
            IF f.layout = "glove_text" /\ ~binary
            THEN Some(KeyedVectors(f)) ELSE None

\* The tail of load_from_file (lines 127-134) once embeddings_raw is raw:
\* tokens, dimension and embeddings are read from it.  The subset is not
\* touched.
StoreFrom(c, raw) ==
    /\ embeddings_raw' = raw
    /\ IF raw = None \/ Val(raw).class # "KeyedVectors"
       THEN \* None.index_to_key, FastText.index_to_key
            /\ outcome' = "AttributeError"
            /\ ret' = None
            /\ UNCHANGED <<tokens, dimension, embeddings>>
       ELSE /\ tokens' = Some(Val(raw).index_to_key)
            /\ dimension' = Some(Val(raw).vector_size)
            /\ embeddings' = Some(Val(raw).vectors)
            /\ outcome' = "ok"
            /\ ret' = Some(Val(raw).vectors)
    /\ call' = c
    /\ ndist' = 0
    /\ UNCHANGED <<embeddings_subset, tokens_subset>>

\* EmbeddingLoader.load_from_file(path, format)
LoadFromFile(path, format) ==
    LET c == [op |-> "load_from_file", path |-> path, format |-> format]
        v == ValidateFile(path)
    IN  IF v.exc # "ok" THEN Raise(c, v.exc)
        ELSE IF format \in {"word2vec", "fasttext", "glove"}
        THEN LET raw == ReadRaw(FileAt(path), format, v.binary) IN
             IF raw = None THEN Raise(c, "ReaderError")
             ELSE StoreFrom(c, raw)
        ELSE \* no case of the match statement: embeddings_raw stays
             StoreFrom(c, embeddings_raw)

\* subset() with 'first' stopping one index early: range(min(n, size) - 1).
SubsetIndicesShort(n, strategy, size) ==
    CASE strategy = "first" -> {Some(Range(Min(n, size) - 1))}
      [] strategy = "random" ->
            IF Min(n, size) < 0 THEN {None}
            ELSE {Some(a) : a \in Arrangements(0..(size - 1), Min(n, size))}
      [] OTHER -> {None}

\* subset() with a final `else` that selects as 'first' does instead of
\* raising.
SubsetIndicesLenient(n, strategy, size) ==
    CASE strategy = "random" ->
            IF Min(n, size) < 0 THEN {None}
            ELSE {Some(a) : a \in Arrangements(0..(size - 1), Min(n, size))}
      [] OTHER -> {Some(Range(Min(n, size)))}

\* The indices subset() selects, None when it raises.  'random' with no seed
\* may draw any arrangement of min(n, size) distinct indices.
SubsetIndices(n, strategy, size) ==
    CASE strategy = "first" -> {Some(Range(Min(n, size)))}
      [] strategy = "random" ->
            IF Min(n, size) < 0 THEN {None}
            ELSE {Some(a) : a \in Arrangements(0..(size - 1), Min(n, size))}
      [] OTHER -> {None}

\* The assignments of subset(), lines 259-260.
SetSubset(indices) ==
    /\ tokens_subset' = Some(Take(Val(tokens), indices))
    /\ embeddings_subset' = Some(Take(Val(embeddings), indices))
    /\ UNCHANGED <<embeddings_raw, embeddings, tokens, dimension>>

\* EmbeddingLoader.subset(n, strategy)
Subset(n, strategy) ==
    LET c == [op |-> "subset", n |-> n, strategy |-> strategy] IN
    IF tokens = None THEN Raise(c, "TypeError")     \* len(None)
    ELSE \E ix \in SubsetIndices(n, strategy, Len(Val(tokens))) :
            IF ix = None THEN Raise(c, "ValueError")
            ELSE /\ SetSubset(Val(ix))
                 /\ call' = c
                 /\ outcome' = "ok"
                 /\ ret' = None
                 /\ ndist' = 0

\* use_subset() without its `is None` test: subset(n) on every call.
UseSubsetAlways(n) ==
    LET c == [op |-> "use_subset", n |-> n] IN
    IF tokens = None THEN Raise(c, "TypeError")
    ELSE \E ix \in SubsetIndices(n, "first", Len(Val(tokens))) :
            /\ SetSubset(Val(ix))
            /\ call' = c
            /\ outcome' = "ok"
            /\ ret' = Some(<<embeddings_subset', tokens_subset'>>)
            /\ ndist' = 0

\* EmbeddingLoader.use_subset(n)
UseSubset(n) ==
    LET c == [op |-> "use_subset", n |-> n] IN
    IF embeddings_subset # None
    THEN /\ call' = c
         /\ outcome' = "ok"
         /\ ret' = Some(<<embeddings_subset, tokens_subset>>)
         /\ ndist' = 0
         /\ UNCHANGED loader
    ELSE IF tokens = None THEN Raise(c, "TypeError")
    ELSE \E ix \in SubsetIndices(n, "first", Len(Val(tokens))) :
            /\ SetSubset(Val(ix))
            /\ call' = c
            /\ outcome' = "ok"
            /\ ret' = Some(<<embeddings_subset', tokens_subset'>>)
            /\ ndist' = 0

\* The end of similarity_heatmap, lines 331-355, on the rows emb and labels
\* toks: emb.shape fails on None, and pairwise_distances refuses an array of
\* no rows; otherwise the figure is built from emb and toks.
Heatmap(c, emb, toks) ==
    /\ call' = c
    /\ outcome' = IF emb = None THEN "AttributeError"
                  ELSE IF Len(Val(emb)) = 0 THEN "ValueError" ELSE "ok"
    /\ ret' = IF emb = None \/ Len(Val(emb)) = 0 THEN None ELSE Some(<<emb, toks>>)
    /\ ndist' = 0

\* Visualizer(loader).similarity_heatmap(use_subset=use_subset, n=n), with
\* the default metric.
SimilarityHeatmap(use_subset, n) ==
    LET c == [op |-> "similarity_heatmap", use_subset |-> use_subset, n |-> n]
    IN
    IF ~use_subset
    THEN Heatmap(c, embeddings, tokens) /\ UNCHANGED loader
    ELSE IF n # 0
    THEN \* self.loader.subset(n)
         IF tokens = None THEN Raise(c, "TypeError")
         ELSE \E ix \in SubsetIndices(n, "first", Len(Val(tokens))) :
                 /\ SetSubset(Val(ix))
                 /\ Heatmap(c, embeddings_subset', tokens_subset')
    ELSE \* self.loader.use_subset()
         IF embeddings_subset # None
         THEN Heatmap(c, embeddings_subset, tokens_subset) /\ UNCHANGED loader
         ELSE IF tokens = None THEN Raise(c, "TypeError")
         ELSE \E ix \in SubsetIndices(DefaultN, "first", Len(Val(tokens))) :
                 /\ SetSubset(Val(ix))
                 /\ Heatmap(c, embeddings_subset', tokens_subset')

Next ==
    \/ \E path \in Paths, format \in Formats : LoadFromFile(path, format)
    \/ \E n \in NArgs, strategy \in Strategies : Subset(n, strategy)
    \/ \E n \in NArgs \cup {DefaultN} : UseSubset(n)
    \/ \E use_subset \in BOOLEAN, n \in NArgs : SimilarityHeatmap(use_subset, n)

Spec == Init /\ [][Next]_vars

(* ----------------------------- the queries ----------------------------- *)

\* The loop's batch_size.
BatchSize == 10000

\* EmbeddingLoader.get_embedding(word) for a str word: the row of
\* embeddings_raw under that key, None when the key is absent.
GetEmbedding(raw, word) ==
    IF \E i \in 1..Len(raw.index_to_key) : raw.index_to_key[i] = word
    THEN Some(raw.vectors[CHOOSE i \in 1..Len(raw.index_to_key) :
                              raw.index_to_key[i] = word])
    ELSE None

\* words.index(target_word): the first position holding it (0-based).
IndexOf(words, w) ==
    (CHOOSE i \in 1..Len(words) :
        words[i] = w /\ \A j \in 1..(i - 1) : words[j] # w) - 1

\* word_indices without the remove(): the target stays a candidate.
WordIndicesAll(words, target_index) == Range(Len(words))

\* list(range(len(words))) with the first occurrence of target_index removed.
WordIndices(words, target_index) ==
    [j \in 1..(Len(words) - 1) |-> IF j - 1 < target_index THEN j - 1 ELSE j]

\* The permutations of 0..L-1 as index arrays.
IndexPerms(L) == Arrangements(0..(L - 1), L)

\* np.argsort(ds): every index array that lists ds in sort order (the default
\* sort is not stable: equal keys may come in any order).
ArgSort(ds) ==
    {p \in IndexPerms(Len(ds)) :
        \A i \in 1..(Len(ds) - 1) : SortLe(ds[p[i] + 1], ds[p[i + 1] + 1])}

\* np.argpartition(ds, kth) for an in-bounds kth >= 0: every index array whose
\* entry kth is the one a full sort puts there, none larger before it and none
\* smaller after it.
ArgPartition(ds, kth) ==
    {p \in IndexPerms(Len(ds)) :
        /\ \A i \in 1..kth : SortLe(ds[p[i] + 1], ds[p[kth + 1] + 1])
        /\ \A i \in (kth + 2)..Len(ds) : SortLe(ds[p[kth + 1] + 1], ds[p[i] + 1])}

\* xs[:n]
SliceTo(xs, n) ==
    IF n >= 0 THEN SubSeq(xs, 1, Min(n, Len(xs)))
    ELSE SubSeq(xs, 1, Max(Len(xs) + n, 0))

\* The scan with each batch after the first starting one candidate late
\* (at stop + 1).
RECURSIVE ScanSkip(_, _, _, _, _, _)
ScanSkip(raw, filtered_words, target_vector, dist, batch_size, i) ==
    IF i >= Len(filtered_words) THEN [all_distances |-> <<>>, all_indices |-> <<>>]
    ELSE LET stop == Min(i + batch_size, Len(filtered_words))
             batch_words == SubSeq(filtered_words, i + 1, stop)
             distances == [j \in 1..Len(batch_words) |->
                 PairwiseDistance(target_vector,
                                  Val(GetEmbedding(raw, batch_words[j])), dist)]
             rest == ScanSkip(raw, filtered_words, target_vector, dist,
                              batch_size, stop + 1)
         IN  [all_distances |-> distances \o rest.all_distances,
              all_indices |-> [j \in 1..(stop - i) |-> i + j - 1] \o rest.all_indices]

\* The scan of n_most_similar, lines 162-178: all_distances and all_indices
\* after the batches starting at i, i + batch_size, ...
RECURSIVE Scan(_, _, _, _, _, _)
Scan(raw, filtered_words, target_vector, dist, batch_size, i) ==
    IF i >= Len(filtered_words) THEN [all_distances |-> <<>>, all_indices |-> <<>>]
    ELSE LET stop == Min(i + batch_size, Len(filtered_words))
             batch_words == SubSeq(filtered_words, i + 1, stop)
             distances == [j \in 1..Len(batch_words) |->
                 PairwiseDistance(target_vector,
                                  Val(GetEmbedding(raw, batch_words[j])), dist)]
             rest == Scan(raw, filtered_words, target_vector, dist, batch_size, stop)
         IN  [all_distances |-> distances \o rest.all_distances,
              all_indices |-> [j \in 1..(stop - i) |-> i + j - 1] \o rest.all_indices]

\* top_n_indices without the [:n] after argpartition.
TopNIndicesNoSlice(all_distances, n) ==
    LET L == Len(all_distances)
        kth == IF n - 1 < 0 THEN L + n - 1 ELSE n - 1
    IN  IF L <= n THEN ArgSort(all_distances)
        ELSE IF kth < 0 THEN {}
        ELSE UNION {
                {Take(top, order) : order \in ArgSort(Take(all_distances, top))} :
                top \in ArgPartition(all_distances, kth)}

\* The values top_n_indices may take, lines 181-186; the empty set when
\* argpartition raises (kth out of bounds).  A negative kth counts from the end.
TopNIndices(all_distances, n) ==
    LET L == Len(all_distances)
        kth == IF n - 1 < 0 THEN L + n - 1 ELSE n - 1
    IN  IF L <= n THEN ArgSort(all_distances)
        ELSE IF kth < 0 THEN {}
        ELSE UNION {
                {Take(top, order) : order \in ArgSort(Take(all_distances, top))} :
                top \in {SliceTo(p, n) : p \in ArgPartition(all_distances, kth)}}

\* The triple with the words read from the store's token list instead of
\* filtered_words: a candidate index taken as a vocabulary index.
ResultUnfiltered(raw, filtered_words, sc, top_n_indices) ==
    LET result_words == [i \in 1..Len(top_n_indices) |->
            raw.index_to_key[sc.all_indices[top_n_indices[i] + 1] + 1]]
    IN  [words |-> result_words,
         vectors |-> [i \in 1..Len(result_words) |->
                         Val(GetEmbedding(raw, result_words[i]))],
         distances |-> Take(sc.all_distances, top_n_indices)]

\* The triple n_most_similar returns for top_n_indices, lines 189-193.
Result(raw, filtered_words, sc, top_n_indices) ==
    LET result_words == [i \in 1..Len(top_n_indices) |->
            filtered_words[sc.all_indices[top_n_indices[i] + 1] + 1]]
    IN  [words |-> result_words,
         vectors |-> [i \in 1..Len(result_words) |->
                         Val(GetEmbedding(raw, result_words[i]))],
         distances |-> Take(sc.all_distances, top_n_indices)]

\* target_word in words
InVocabulary(words, target_word) ==
    \E i \in 1..Len(words) : words[i] = target_word

\* An unknown target answered with an empty result instead of the raise.
ReturnEmpty(c) ==
    /\ call' = c
    /\ outcome' = "ok"
    /\ ret' = Some([words |-> <<>>, vectors |-> <<>>, distances |-> <<>>])
    /\ ndist' = 0
    /\ UNCHANGED loader

\* raise ValueError(f'{target_word} is not in vocabulary'), the first
\* statement after words = loader.tokens in both queries.
RaiseNotInVocabulary(c) == Raise(c, "ValueError")

\* n_most_similar(loader, target_word, dist, n) with the value line 161 gives
\* batch_size as a parameter.
NMostSimilarBatched(target_word, dist, n, batch_size) ==
    LET c == [op |-> "n_most_similar", target_word |-> target_word,
              dist |-> dist, n |-> n, batch_size |-> batch_size]
    IN
    IF tokens = None THEN Raise(c, "TypeError")     \* target_word in None
    ELSE IF ~InVocabulary(Val(tokens), target_word)
    THEN RaiseNotInVocabulary(c)
    ELSE
      LET words == Val(tokens)
          raw == Val(embeddings_raw)
          target_vector == Val(GetEmbedding(raw, target_word))
          word_indices == WordIndices(words, IndexOf(words, target_word))
          filtered_words == Take(words, word_indices)
      IN
      IF filtered_words # <<>> /\ dist \notin PairwiseMetrics
      THEN Raise(c, "ValueError")                   \* pairwise_distances
      ELSE
        LET sc == Scan(raw, filtered_words, target_vector, dist, batch_size, 0) IN
        IF TopNIndices(sc.all_distances, n) = {}
        THEN /\ call' = c
             /\ outcome' = "ValueError"             \* argpartition
             /\ ret' = None
             /\ ndist' = Len(sc.all_distances)
             /\ UNCHANGED loader
        ELSE \E top_n_indices \in TopNIndices(sc.all_distances, n) :
             /\ call' = c
             /\ outcome' = "ok"
             /\ ret' = Some(Result(raw, filtered_words, sc, top_n_indices))
             /\ ndist' = Len(sc.all_distances)
             /\ UNCHANGED loader

\* n_most_similar(loader, target_word, dist, n)
NMostSimilar(target_word, dist, n) ==
    NMostSimilarBatched(target_word, dist, n, BatchSize)

\* max(topn_vectors, key=topn_vectors.get) over the dict's entries in
\* insertion order: the position of the first entry no later entry is > than.
RECURSIVE PyMaxFrom(_, _, _)
PyMaxFrom(topn, best, i) ==
    IF i > Len(topn) THEN best
    ELSE PyMaxFrom(topn, IF PyGt(topn[i][2], topn[best][2]) THEN i ELSE best, i + 1)
PyMax(topn) == PyMaxFrom(topn, 1, 2)

\* del d[key] on a dict kept as its entries in insertion order.
DelAt(topn, k) == SubSeq(topn, 1, k - 1) \o SubSeq(topn, k + 1, Len(topn))

\* One pass of n_most_similar2's loop body, lines 105-112, for a candidate
\* whose distance is known; None when max() raises on an empty dict.
Offer(topn, word, distance, n) ==
    IF Len(topn) < n THEN Some(Append(topn, <<word, distance>>))
    ELSE IF topn = <<>> THEN None
    ELSE IF PyLt(distance, topn[PyMax(topn)][2])
         THEN Some(Append(DelAt(topn, PyMax(topn)), <<word, distance>>))
         ELSE Some(topn)

\* n_most_similar2's loop from words[i] on, lines 101-112: the dict, the
\* distances computed, and the exception that ended it ("ok" if none).
RECURSIVE Loop2(_, _, _, _, _, _, _, _)
Loop2(raw, words, target_word, dist, n, topn, count, i) ==
    IF i > Len(words) THEN [exc |-> "ok", topn |-> topn, count |-> count]
    ELSE IF words[i] = target_word
    THEN Loop2(raw, words, target_word, dist, n, topn, count, i + 1)
    ELSE LET distance == WordDistance(Val(GetEmbedding(raw, words[i])),
                                      Val(GetEmbedding(raw, target_word)), dist)
         IN  IF distance = None
             THEN [exc |-> "UnboundLocalError", topn |-> topn, count |-> count]
             ELSE IF Offer(topn, words[i], Val(distance), n) = None
             THEN [exc |-> "ValueError", topn |-> topn, count |-> count + 1]
             ELSE Loop2(raw, words, target_word, dist, n,
                        Val(Offer(topn, words[i], Val(distance), n)),
                        count + 1, i + 1)

\* n_most_similar2(loader, target_word, dist, n)
NMostSimilar2(target_word, dist, n) ==
    LET c == [op |-> "n_most_similar2", target_word |-> target_word,
              dist |-> dist, n |-> n]
    IN
    IF tokens = None THEN Raise(c, "TypeError")
    ELSE IF ~InVocabulary(Val(tokens), target_word)
    THEN RaiseNotInVocabulary(c)
    ELSE
      LET raw == Val(embeddings_raw)
          r == Loop2(raw, Val(tokens), target_word, dist, n, <<>>, 0, 1)
      IN  /\ call' = c
          /\ outcome' = r.exc
          /\ ret' = IF r.exc # "ok" THEN None
                    ELSE Some([words |-> [i \in 1..Len(r.topn) |-> r.topn[i][1]],
                               vectors |-> [i \in 1..Len(r.topn) |->
                                   Val(GetEmbedding(raw, r.topn[i][1]))],
                               distances |-> [i \in 1..Len(r.topn) |-> r.topn[i][2]]])
          /\ ndist' = r.count
          /\ UNCHANGED loader

\* loader.get_embedding(word) for a str word: `word in self.embeddings_raw`
\* raises on a loader that never loaded; a key of the store returns its row;
\* for any other word both ifs fall through and the call returns None.
GetEmbeddingCall(word) ==
    LET c == [op |-> "get_embedding", word |-> word] IN
    IF embeddings_raw = None THEN Raise(c, "TypeError")
    ELSE /\ call' = c
         /\ outcome' = "ok"
         /\ ret' = GetEmbedding(Val(embeddings_raw), word)
         /\ ndist' = 0
         /\ UNCHANGED loader

\* word_distance(loader, word1, word2, dist)
WordDistanceCall(word1, word2, dist) ==
    LET c == [op |-> "word_distance", word1 |-> word1, word2 |-> word2,
              dist |-> dist]
    IN
    IF tokens = None THEN Raise(c, "TypeError")     \* w not in None
    ELSE IF \E w \in {word1, word2} : ~InVocabulary(Val(tokens), w)
    THEN Raise(c, "ValueError")
    ELSE
      LET raw == Val(embeddings_raw)
          distance == WordDistance(Val(GetEmbedding(raw, word1)),
                                   Val(GetEmbedding(raw, word2)), dist)
      IN  /\ call' = c
          /\ outcome' = IF distance = None THEN "UnboundLocalError" ELSE "ok"
          /\ ret' = distance
          /\ ndist' = IF distance = None THEN 0 ELSE 1
          /\ UNCHANGED loader

(* ------------------- the queries on a loaded store --------------------- *)

\* The vectors and words of the stores queried.
QVectors == {<<0, 0>>, <<1, 0>>, <<1, 1>>, <<-1, 0>>}
QWord(i) == <<"w", i>>
QStores ==
    UNION {{[words |-> [i \in 1..size |-> QWord(i)], vectors |-> vs] :
                vs \in [1..size -> QVectors]} : size \in 1..MaxVocab}

\* A loader as load_from_file leaves a fresh one on a word2vec text file
\* holding store s, and as use_subset(1) leaves that one when cached is TRUE.
LoadedWith(s, cached) ==
    /\ embeddings_raw = Some(KeyedVectors(s))
    /\ tokens = Some(s.words)
    /\ dimension = Some(Len(s.vectors[1]))
    /\ embeddings = Some(s.vectors)
    /\ tokens_subset = IF cached THEN Some(SubSeq(s.words, 1, 1)) ELSE None
    /\ embeddings_subset = IF cached THEN Some(SubSeq(s.vectors, 1, 1)) ELSE None

QInit ==
    /\ \/ Init
       \/ \E s \in QStores, cached \in BOOLEAN : LoadedWith(s, cached)
    /\ call = [op |-> "__init__"]
    /\ outcome = "ok"
    /\ ret = None
    /\ ndist = 0

QTargets == {QWord(i) : i \in 1..MaxVocab} \cup {QWord(0)}

\* One call on the loader QInit gives.  Each of them leaves the loader as it
\* was (UNCHANGED loader in every branch), so a call that follows another
\* starts from the same loader and has the same outcomes.
QNext ==
    \/ /\ call.op = "__init__"
       /\ \E t \in QTargets, dist \in DistArgs, n \in NArgs :
             NMostSimilar(t, dist, n)
    \/ /\ call.op = "__init__"
       /\ \E t \in QTargets, dist \in DistArgs, n \in NArgs :
             NMostSimilar2(t, dist, n)
    \/ /\ call.op = "__init__"
       /\ \E word \in QTargets : GetEmbeddingCall(word)
    \/ /\ call.op = "__init__"
       /\ \E word1 \in QTargets, word2 \in QTargets, dist \in DistArgs :
             WordDistanceCall(word1, word2, dist)

SpecQuery == QInit /\ [][QNext]_vars

(* ------------------- the queries on a wider store ---------------------- *)

\* Stores of up to MaxTokens tokens, queried for up to MaxK neighbours with a
\* scan in batches of up to MaxBatch candidates.
MaxTokens == 4
MaxK == 2
MaxBatch == 3

WVectors == {<<0, 0>>, <<1, 0>>, <<-1, 0>>}
WStores ==
    UNION {{[words |-> [i \in 1..size |-> QWord(i)], vectors |-> vs] :
                vs \in [1..size -> WVectors]} : size \in 1..MaxTokens}

WInit ==
    /\ \E s \in WStores : LoadedWith(s, FALSE)
    /\ call = [op |-> "__init__"]
    /\ outcome = "ok"
    /\ ret = None
    /\ ndist = 0

WTargets == {QWord(i) : i \in 1..MaxTokens}
WDists == {"euclidean", "cosine"}

\* One query on the loader WInit gives.
WNext ==
    \/ /\ call.op = "__init__"
       /\ \E t \in WTargets, n \in 1..MaxK, batch_size \in 1..MaxBatch :
             NMostSimilarBatched(t, "euclidean", n, batch_size)
    \/ /\ call.op = "__init__"
       /\ \E t \in WTargets, dist \in WDists, n \in 1..MaxK :
             NMostSimilar2(t, dist, n)

SpecWide == WInit /\ [][WNext]_vars

(* ------------------------ properties of the queries -------------------- *)

Queries == {"n_most_similar", "n_most_similar2"}

\* The last call was a query on a loaded store.
QueriedLoaded == call.op \in Queries /\ tokens # None
\* ... whose target is a token of the store.
QueriedKnown == QueriedLoaded /\ InVocabulary(Val(tokens), call.target_word)
\* ... and it returned.
Returned == QueriedKnown /\ outcome = "ok"

\* The vector the store holds for a word of it.
StoreVector(word) == Val(embeddings)[IndexOf(Val(tokens), word) + 1]

\* The metric names test_plot_similarity passes to plot_similarity.
TestedMetrics == {"cosine", "euclidean", "manhattan", "chebyshev", "dot",
                  "pearson", "spearman"}

\* C1: the word list a query returns never contains the target token, for
\* n_most_similar and for n_most_similar2, whatever the metric and n.
C1_TargetNotReturned ==
    Returned =>
        \A i \in 1..Len(Val(ret).words) : Val(ret).words[i] # call.target_word

\* n_most_similar returned neighbours of a target that is not the first
\* token, one of them a token placed after the target.
C1_Witness ==
    /\ Returned
    /\ call.op = "n_most_similar"
    /\ IndexOf(Val(tokens), call.target_word) = 1
    /\ Len(Val(tokens)) = 3
    /\ Len(Val(ret).words) = 2

\* C2: the distances n_most_similar returns are non-decreasing,
\* result_distances[i] <= result_distances[i+1] for every i, in the argsort
\* branch and in the argpartition branch.
C2_DistancesNonDecreasing ==
    (Returned /\ call.op = "n_most_similar") =>
        \A i \in 1..(Len(Val(ret).distances) - 1) :
            PyLe(Val(ret).distances[i], Val(ret).distances[i + 1])

\* What holds instead: the distances are in numpy's sort order, in which a
\* nan distance comes last; they are non-decreasing when none is nan.
SortedInSortOrder ==
    (Returned /\ call.op = "n_most_similar") =>
        \A i \in 1..(Len(Val(ret).distances) - 1) :
            SortLe(Val(ret).distances[i], Val(ret).distances[i + 1])

\* C3: on a store of N tokens n_most_similar returns exactly n results when
\* 1 <= n <= N-1 and each of the N-1 other tokens once when n > N-1; with a
\* metric pairwise_distances accepts the call does return.
C3_ResultCount ==
    (QueriedKnown /\ call.op = "n_most_similar" /\ call.n >= 1) =>
        LET N == Len(Val(tokens)) IN
        /\ call.dist \in PairwiseMetrics => outcome = "ok"
        /\ outcome = "ok" =>
            /\ call.n <= N - 1 => Len(Val(ret).words) = call.n
            /\ call.n > N - 1 =>
                /\ Len(Val(ret).words) = N - 1
                /\ \A j \in 1..N :
                     Val(tokens)[j] # call.target_word =>
                        Cardinality({i \in 1..(N - 1) :
                            Val(ret).words[i] = Val(tokens)[j]}) = 1

\* n = 1 on a store of three tokens returned one neighbour.
C3_Witness ==
    /\ Returned
    /\ call.op = "n_most_similar"
    /\ call.n = 1
    /\ Len(Val(tokens)) = 3
    /\ Len(Val(ret).words) = 1

\* C4: for 1 <= n <= N-1 every distance n_most_similar returns is <= the
\* distance of every token, other than the target, that it did not return.
C4_TrueTopK ==
    (Returned /\ call.op = "n_most_similar"
        /\ call.n >= 1 /\ call.n <= Len(Val(tokens)) - 1) =>
        \A i \in 1..Len(Val(ret).words) : \A j \in 1..Len(Val(tokens)) :
            (/\ Val(tokens)[j] # call.target_word
             /\ \A m \in 1..Len(Val(ret).words) : Val(ret).words[m] # Val(tokens)[j])
            => PyLe(Val(ret).distances[i],
                    PairwiseDistance(StoreVector(call.target_word),
                                     Val(embeddings)[j], call.dist))

\* What holds instead: the same in numpy's sort order (nan last).
TopKInSortOrder ==
    (Returned /\ call.op = "n_most_similar"
        /\ call.n >= 1 /\ call.n <= Len(Val(tokens)) - 1) =>
        \A i \in 1..Len(Val(ret).words) : \A j \in 1..Len(Val(tokens)) :
            (/\ Val(tokens)[j] # call.target_word
             /\ \A m \in 1..Len(Val(ret).words) : Val(ret).words[m] # Val(tokens)[j])
            => SortLe(Val(ret).distances[i],
                      PairwiseDistance(StoreVector(call.target_word),
                                       Val(embeddings)[j], call.dist))

\* C5: a query whose target is not a token of the loaded store raises the
\* unknown-token ValueError with no distance computed, returns nothing, and
\* leaves every attribute of the loader, the cached subset included, as it was.
C5_UnknownTarget ==
    [][(/\ call'.op \in Queries
        /\ call.op = "__init__"
        /\ tokens # None
        /\ ~InVocabulary(Val(tokens), call'.target_word))
       => (/\ outcome' = "ValueError"
           /\ ret' = None
           /\ ndist' = 0
           /\ loader' = loader)]_vars

\* A query for an unknown target was refused on a store of three tokens that
\* has a cached subset.
C5_Witness ==
    /\ QueriedLoaded
    /\ ~InVocabulary(Val(tokens), call.target_word)
    /\ outcome = "ValueError"
    /\ Len(Val(tokens)) = 3
    /\ tokens_subset # None

\* C6: a query with n < 1 on a target of the store raises instead of
\* returning a result.
C6_InvalidK ==
    (QueriedKnown /\ call.n < 1) => outcome # "ok"

\* C7: n_most_similar, as plot_similarity calls it on a token of the store,
\* returns for every metric name the test passes.
C7_TestedMetricsAccepted ==
    (QueriedKnown /\ call.op = "n_most_similar" /\ call.n >= 1
        /\ call.dist \in TestedMetrics) => outcome = "ok"

(* ---------------------- properties of the batched scan ----------------- *)

\* The candidates of the last query: the store's tokens but the target.
FilteredWords ==
    Take(Val(tokens),
         WordIndices(Val(tokens), IndexOf(Val(tokens), call.target_word)))

\* The scan of the last query's candidates in batches of b.
ScanBy(b) ==
    Scan(Val(embeddings_raw), FilteredWords, StoreVector(call.target_word),
         call.dist, b, 0)

\* C18: the scan of n_most_similar in batches of any size >= 1 covers each
\* token other than the target once, in vocabulary order: all_indices is
\* 0..L-1 for the L candidates, all_distances holds one distance per
\* candidate, that candidate's, and the call computes L distances and
\* returns a result the scan in one batch gives too.
C18_BatchedScanCoversAll ==
    (QueriedKnown /\ call.op = "n_most_similar"
        /\ call.dist \in PairwiseMetrics) =>
        LET L == Len(FilteredWords) IN
        /\ L = Len(Val(tokens)) - 1
        /\ ndist = L
        /\ \A b \in 1..MaxBatch :
            LET sc == ScanBy(b) IN
            /\ sc.all_indices = Range(L)
            /\ Len(sc.all_distances) = L
            /\ \A i \in 1..L :
                 sc.all_distances[i] =
                    PairwiseDistance(StoreVector(call.target_word),
                                     StoreVector(FilteredWords[i]), call.dist)
        /\ outcome = "ok" =>
            LET sc == ScanBy(BatchSize) IN
            \E top_n_indices \in TopNIndices(sc.all_distances, call.n) :
                Val(ret) = Result(Val(embeddings_raw), FilteredWords, sc,
                                  top_n_indices)

\* n_most_similar returned after scanning the three candidates of a
\* four-token store, target second, in a batch of two and a batch of one.
C18_Witness ==
    /\ Returned
    /\ call.op = "n_most_similar"
    /\ call.batch_size = 2
    /\ Len(Val(tokens)) = 4
    /\ IndexOf(Val(tokens), call.target_word) = 1
    /\ ndist = 3
    /\ Len(Val(ret).words) = 2

\* C19: each position i of what n_most_similar returns is one token's
\* triple: result_words[i] is a token of the store other than the target,
\* result_vectors[i] is the vector the store holds for it, and
\* result_distances[i] is the distance between the target's vector and that
\* vector; also for the tokens placed after the target.
C19_ConsistentTriples ==
    (Returned /\ call.op = "n_most_similar") =>
        /\ Len(Val(ret).vectors) = Len(Val(ret).words)
        /\ Len(Val(ret).distances) = Len(Val(ret).words)
        /\ \A i \in 1..Len(Val(ret).words) :
            /\ InVocabulary(Val(tokens), Val(ret).words[i])
            /\ Val(ret).words[i] # call.target_word
            /\ Val(ret).vectors[i] = StoreVector(Val(ret).words[i])
            /\ Val(ret).distances[i] =
                  PairwiseDistance(StoreVector(call.target_word),
                                   StoreVector(Val(ret).words[i]), call.dist)

\* n_most_similar on the second token of a three-token store returned the
\* last token, whose vector differs from the first token's and from the
\* target's.
C19_Witness ==
    /\ Returned
    /\ call.op = "n_most_similar"
    /\ Len(Val(tokens)) = 3
    /\ IndexOf(Val(tokens), call.target_word) = 1
    /\ Val(embeddings)[3] # Val(embeddings)[1]
    /\ Val(embeddings)[3] # Val(embeddings)[2]
    /\ \E i \in 1..Len(Val(ret).words) : Val(ret).words[i] = Val(tokens)[3]

(* ------------------ properties of the streaming selection -------------- *)

\* n_most_similar2 returned on a target of the store.
Returned2 == Returned /\ call.op = "n_most_similar2"

\* The dict topn_vectors of the last n_most_similar2 call once its loop has
\* passed the first j tokens of the store, as entries <<word, distance>>.
HeldAfter(j) ==
    Loop2(Val(embeddings_raw), SubSeq(Val(tokens), 1, j), call.target_word,
          call.dist, call.n, <<>>, 0, 1).topn

\* The distance n_most_similar2 computes for token j of the store.
DistanceOf(j) ==
    Val(WordDistance(Val(embeddings)[j], StoreVector(call.target_word),
                     call.dist))

\* C12: in n_most_similar2, when a candidate evicts a held entry and other
\* held entries have the same distance as the evicted one, the evicted entry
\* is the one with the highest vocabulary index among them (the lower index
\* is kept).
C12_EvictsHighestIndex ==
    Returned2 =>
        \A j \in 1..Len(Val(tokens)) :
            LET held == HeldAfter(j - 1)
                after == HeldAfter(j)
            IN  \A m \in 1..Len(held) :
                    (\A q \in 1..Len(after) : after[q][1] # held[m][1]) =>
                        \A m2 \in 1..Len(held) :
                            held[m2][2] = held[m][2] =>
                                IndexOf(Val(tokens), held[m2][1])
                                    <= IndexOf(Val(tokens), held[m][1])

\* C13: the entries n_most_similar2 returns are in ascending order of
\* distance, entries of equal distance in ascending vocabulary index (stated
\* for results that hold no nan distance).
C13_ReturnedSorted ==
    (Returned2 /\ \A i \in 1..Len(Val(ret).distances) :
                        ~IsNaN(Val(ret).distances[i])) =>
        \A i \in 1..(Len(Val(ret).words) - 1) :
            \/ PyLt(Val(ret).distances[i], Val(ret).distances[i + 1])
            \/ /\ Val(ret).distances[i] = Val(ret).distances[i + 1]
               /\ IndexOf(Val(tokens), Val(ret).words[i])
                    < IndexOf(Val(tokens), Val(ret).words[i + 1])

\* The candidates among the first j tokens of the store, as positions.
SeenBy(j) == {i \in 1..j : Val(tokens)[i] # call.target_word}

\* After the first j tokens the dict holds at most n entries, as many as
\* min(n, candidates seen), each no farther than any candidate seen and not
\* held; and a candidate as far as the worst entry of a full dict leaves the
\* dict as it was.
HeldSmallestAt(j) ==
    LET held == HeldAfter(j) IN
    /\ Len(held) <= call.n
    /\ Len(held) = Min(call.n, Cardinality(SeenBy(j)))
    /\ \A m \in 1..Len(held) : \A i \in SeenBy(j) :
          (\A q \in 1..Len(held) : held[q][1] # Val(tokens)[i]) =>
              PyLe(held[m][2], DistanceOf(i))
    /\ (/\ j < Len(Val(tokens))
        /\ j + 1 \in SeenBy(j + 1)
        /\ Len(held) = call.n
        /\ DistanceOf(j + 1) = held[PyMax(held)][2])
       => HeldAfter(j + 1) = held

\* C17: in n_most_similar2 with n >= 1, after each candidate the dict holds
\* at most n entries, exactly the min(n, seen) smallest distances seen so
\* far, and a candidate whose distance equals the worst held one evicts
\* nothing.
C17_HeldAreSmallest ==
    (Returned2 /\ call.n >= 1) =>
        \A j \in 0..Len(Val(tokens)) : HeldSmallestAt(j)

\* What holds instead: the same wherever no candidate's distance is nan.
HeldAreSmallestWithoutNaN ==
    (Returned2 /\ call.n >= 1
        /\ \A i \in SeenBy(Len(Val(tokens))) : ~IsNaN(DistanceOf(i))) =>
        \A j \in 0..Len(Val(tokens)) : HeldSmallestAt(j)

(* ------------------------ properties of the lookups ------------------- *)

\* C11: get_embedding of a token that is absent from the loaded store fails
\* with an error; it does not return a value.
C11_AbsentTokenRaises ==
    (/\ call.op = "get_embedding"
     /\ tokens # None
     /\ ~InVocabulary(Val(tokens), call.word))
    => outcome # "ok"

\* C14: word_distance on two tokens of the store whose vectors the metric is
\* undefined on (cosine with an all-zero vector, pearson or spearman with a
\* constant vector, braycurtis with a zero denominator) ends in an error and
\* returns no distance, numeric or nan.
C14_UndefinedMetricRaises ==
    (/\ call.op = "word_distance"
     /\ tokens # None
     /\ InVocabulary(Val(tokens), call.word1)
     /\ InVocabulary(Val(tokens), call.word2)
     /\ LET u == StoreVector(call.word1)
            v == StoreVector(call.word2)
        IN  \/ call.dist = "cosine" /\ Dot(u, u) * Dot(v, v) = 0
            \/ call.dist \in {"pearson", "spearman"}
                  /\ (IsConstant(u) \/ IsConstant(v))
            \/ call.dist = "braycurtis" /\ L1Sum(u, v) = 0)
    => (outcome # "ok" /\ ret = None)

(* ------------------------ properties of the loader --------------------- *)

\* xs[:n] of a list the loader holds.
FirstN(xs, n) == SubSeq(xs, 1, Min(n, Len(xs)))

\* C8: the cached subset is absent or derived from the store now loaded:
\* each of its entries is a token of the store with the vector the store
\* holds for it, so use_subset returns nothing of a store loaded before.
C8_SubsetOfCurrentStore ==
    tokens_subset # None =>
        /\ tokens # None
        /\ \A i \in 1..Len(Val(tokens_subset)) :
             \E j \in 1..Len(Val(tokens)) :
                /\ Val(tokens)[j] = Val(tokens_subset)[i]
                /\ Val(embeddings)[j] = Val(embeddings_subset)[i]

\* C9: subset(n, 'first') with n >= 0 on a loaded store succeeds and selects
\* the entries 0..min(n, size)-1 in store order, all of them when n > size.
C9_SubsetFirst ==
    (call.op = "subset" /\ call.strategy = "first" /\ call.n >= 0
        /\ tokens # None) =>
        /\ outcome = "ok"
        /\ tokens_subset = Some(FirstN(Val(tokens), call.n))
        /\ embeddings_subset = Some(FirstN(Val(embeddings), call.n))

\* subset(n, 'first') with n above the size of a three-token store kept all
\* three.
C9_Witness ==
    /\ call.op = "subset"
    /\ call.strategy = "first"
    /\ outcome = "ok"
    /\ tokens # None
    /\ Len(Val(tokens)) = 3
    /\ call.n > 3
    /\ Len(Val(tokens_subset)) = 3
    /\ Len(Val(embeddings_subset)) = 3

\* C10: use_subset(n) returns the cached subset as it is when there is one,
\* whatever n; with none, on a loaded store, it caches and returns the
\* 'first' subset of n; and a use_subset right after a use_subset returns
\* what that one returned.
C10_UseSubset ==
    [][call'.op = "use_subset" =>
        /\ embeddings_subset # None =>
            /\ outcome' = "ok"
            /\ ret' = Some(<<embeddings_subset, tokens_subset>>)
            /\ UNCHANGED <<embeddings_subset, tokens_subset>>
        /\ (embeddings_subset = None /\ tokens # None) =>
            /\ outcome' = "ok"
            /\ tokens_subset' = Some(FirstN(Val(tokens), Max(call'.n, 0)))
            /\ embeddings_subset' = Some(FirstN(Val(embeddings), Max(call'.n, 0)))
            /\ ret' = Some(<<embeddings_subset', tokens_subset'>>)
        /\ (call.op = "use_subset" /\ outcome = "ok") => ret' = ret
      ]_vars

\* use_subset(0) returned a cached subset of two entries.
C10_Witness ==
    /\ call.op = "use_subset"
    /\ call.n = 0
    /\ outcome = "ok"
    /\ Len(Val(ret)[2]) = 1
    /\ Len(Val(Val(ret)[2])) = 2
    /\ Val(ret)[2] = tokens_subset

\* C15: subset with a strategy other than 'first' and 'random' raises and
\* leaves tokens_subset and embeddings_subset as they were; and no subset
\* call updates one of the two without the other: a call that raises leaves
\* both, a call that returns sets both from the same indices of the store.
C15_SubsetAllOrNothing ==
    [][call'.op = "subset" =>
        /\ call'.strategy \notin {"first", "random"} =>
            /\ outcome' # "ok"
            /\ UNCHANGED <<tokens_subset, embeddings_subset>>
        /\ outcome' # "ok" => UNCHANGED <<tokens_subset, embeddings_subset>>
        /\ outcome' = "ok" =>
            \E m \in 0..Len(Val(tokens)) :
                \E ix \in Arrangements(0..(Len(Val(tokens)) - 1), m) :
                    /\ tokens_subset' = Some(Take(Val(tokens), ix))
                    /\ embeddings_subset' = Some(Take(Val(embeddings), ix))
      ]_vars

\* subset(n, 'last') was refused on a loader that had cached a subset of two
\* entries, and the two are still cached.
C15_Witness ==
    /\ call.op = "subset"
    /\ call.strategy = "last"
    /\ outcome = "ValueError"
    /\ tokens_subset # None
    /\ embeddings_subset # None
    /\ Len(Val(tokens_subset)) = 2
    /\ Len(Val(embeddings_subset)) = 2

\* C16: similarity_heatmap with use_subset=True on a loader that has a
\* cached subset ignores n: it plots the cached subset and leaves it cached
\* as it was.
C16_HeatmapKeepsCachedSubset ==
    [][(/\ call'.op = "similarity_heatmap"
        /\ call'.use_subset
        /\ embeddings_subset # None)
       => (/\ UNCHANGED <<embeddings_subset, tokens_subset>>
           /\ outcome' = "ok" =>
                ret' = Some(<<embeddings_subset, tokens_subset>>))]_vars

\* C20: load_from_file with a format other than word2vec, fasttext and
\* glove never ends in success, on a fresh loader or on one that holds a
\* store.
C20_UnknownFormatFails ==
    (call.op = "load_from_file"
        /\ call.format \notin {"word2vec", "fasttext", "glove"})
    => outcome # "ok"

====
